---- MODULE Spec2Model ----
(***************************************************************************)
(* Model of imagespace_smqtk/server/smqtk_iqr.py: the SmqtkIqr resource.   *)
(*                                                                         *)
(* State: the durable session items (Girder), the sessions of the SMQTK    *)
(* IQR service, and the request being handled with its local variables.    *)
(* Every HTTP call of a handler (POST /session, PUT /refine,               *)
(* GET /get_results, the Solr lookup) is one step, so that the expiry of   *)
(* an engine session and a metadata write of the client can fall between   *)
(* two calls of the same request.                                          *)
(***************************************************************************)
EXTENDS Integers, Sequences, FiniteSets, TLC

VARIABLES store, engine, checked, hist, req

vars == <<store, engine, checked, hist, req>>

(***************************************************************************)
(* Bounds of the model.                                                    *)
(***************************************************************************)
MaxRank == 2        \* longest ranking the engine holds
MaxDocs == 2        \* most documents one Solr lookup returns
MaxOffset == 1      \* largest offset a request names
MaxLimit == 1       \* largest limit a request names

(***************************************************************************)
(* Program constants.                                                      *)
(***************************************************************************)
DefaultOffset == 0
DefaultLimit == 20

(***************************************************************************)
(* Value domains: one handler running at a time, one session id, one       *)
(* example uuid (so four pairs of label sets), two checksums and two       *)
(* confidence values (so ties and distinct values both occur).             *)
(***************************************************************************)
Reqs == {"r1"}
Sids == {"s1"}
Uuids == {"u1"}
LabelSets == SUBSET Uuids
Shas == {1, 2}              \* checksums, ordered as their strings are
Confs == {1, 2}             \* confidence values
NoSid == "none"

(***************************************************************************)
(* The durable item of a session: createSession writes meta.sid only; the  *)
(* pos_uuids / neg_uuids that results reads are metadata written through   *)
(* the generic item API.                                                   *)
(***************************************************************************)
NoItem == [exists |-> FALSE, hasLabels |-> FALSE, pos |-> {}, neg |-> {}]
NewItem == [exists |-> TRUE, hasLabels |-> FALSE, pos |-> {}, neg |-> {}]
LabelledItem(pos, neg) == [exists |-> TRUE, hasLabels |-> TRUE, pos |-> pos, neg |-> neg]

(***************************************************************************)
(* A session of the ranking engine: absent, or live with the label sets of *)
(* the last accepted refine.                                               *)
(***************************************************************************)
AbsentSession == [live |-> FALSE, pos |-> {}, neg |-> {}]
FreshSession == [live |-> TRUE, pos |-> {}, neg |-> {}]
RefinedSession(pos, neg) == [live |-> TRUE, pos |-> pos, neg |-> neg]

(***************************************************************************)
(* Request parameters: an optional parameter is <<>> when omitted and      *)
(* <<v>> when given.                                                       *)
(***************************************************************************)
OptOffsets == {<<>>} \cup {<<n>> : n \in 0..MaxOffset}
OptLimits == {<<>>} \cup {<<n>> : n \in 1..MaxLimit}

OffsetIgnored(params) == DefaultOffset

Offset(params) == IF params.offset # <<>> THEN params.offset[1] ELSE DefaultOffset
Limit(params) == IF params.limit # <<>> THEN params.limit[1] ELSE DefaultLimit

NoParams == [offset |-> <<>>, limit |-> <<>>]
NoResp == [ok |-> FALSE, total_results |-> 0, results |-> <<>>]
NoPage == [numFound |-> 0, docs |-> <<>>]

(***************************************************************************)
(* One engine call of a request, as logged in req[r].calls.                *)
(***************************************************************************)
PostCall == [op |-> "POST", pos |-> {}, neg |-> {}, i |-> 0, j |-> 0]
\* pos_uuids and neg_uuids travel JSON-encoded; the engine decodes them back
PutCall(pos, neg) == [op |-> "PUT", pos |-> pos, neg |-> neg, i |-> 0, j |-> 0]
GetCall(i, j) == [op |-> "GET", pos |-> {}, neg |-> {}, i |-> i, j |-> j]

IdleReq ==
    [kind |-> "none", pc |-> "idle", sid |-> NoSid, params |-> NoParams,
     pos |-> {}, neg |-> {},
     existed |-> FALSE, liveBefore |-> FALSE, recheck |-> FALSE,
     session |-> NoItem, calls |-> <<>>,
     putOk |-> FALSE, fault |-> "none",
     resp |-> NoResp, documents |-> <<>>, logged |-> 0,
     outcome |-> "none", page |-> NoPage, response |-> FALSE]

(***************************************************************************)
(* What has happened to the engine session of a sid since it was created:  *)
(* unreplayed, when the POST /session of a results request created it      *)
(* while the item held label sets and no PUT /refine has been applied to   *)
(* it yet; lastPut, the request whose PUT /refine was applied to it last.  *)
(***************************************************************************)
NoHist == [unreplayed |-> FALSE, lastPut |-> "none"]

HistAfterPost(sid, r) ==
    IF engine[sid].live THEN hist
    ELSE [hist EXCEPT ![sid] = [unreplayed |-> req[r].kind = "results" /\ store[sid].hasLabels,
                                lastPut |-> "none"]]

HistAfterPut(sid, r) == [hist EXCEPT ![sid] = [unreplayed |-> FALSE, lastPut |-> r]]

InitWith(reqs) ==
    /\ store = [s \in Sids |-> NoItem]
    /\ engine = [s \in Sids |-> AbsentSession]
    /\ checked = [s \in Sids |-> FALSE]
    /\ hist = [s \in Sids |-> NoHist]
    /\ req = [r \in reqs |-> IdleReq]

Init == InitWith(Reqs)

Free(r) == req[r].pc = "idle"

\* the response (or the error) has been delivered: the worker is free again
Reply(r) ==
    /\ req[r].pc = "done"
    /\ req' = [req EXCEPT ![r] = IdleReq]
    /\ UNCHANGED <<store, engine, checked, hist>>

Log(r, call) == Append(req[r].calls, call)

Raise(r, fault, call) ==
    req' = [req EXCEPT ![r].pc = "done", ![r].outcome = "raised",
                       ![r].fault = fault, ![r].calls = Log(r, call)]

(***************************************************************************)
(* The environment: sessions expire in the engine; the client writes the   *)
(* label sets into the item's metadata; createSession.                     *)
(***************************************************************************)
Expire(sid) ==
    /\ engine[sid].live
    /\ engine' = [engine EXCEPT ![sid] = AbsentSession]
    /\ checked' = [checked EXCEPT ![sid] = FALSE]
    /\ hist' = [hist EXCEPT ![sid] = NoHist]
    /\ UNCHANGED <<store, req>>

SetMetadata(sid, pos, neg) ==
    /\ store[sid].exists
    /\ store[sid] # LabelledItem(pos, neg)
    /\ store' = [store EXCEPT ![sid] = LabelledItem(pos, neg)]
    /\ UNCHANGED <<engine, checked, hist, req>>

createSession(sid) ==
    /\ ~store[sid].exists
    /\ ~engine[sid].live
    /\ engine' = [engine EXCEPT ![sid] = FreshSession]
    /\ store' = [store EXCEPT ![sid] = NewItem]
    /\ UNCHANGED <<checked, hist, req>>

(***************************************************************************)
(* refine: self._refine(getBodyJson()).                                    *)
(***************************************************************************)
refine(r, sid, pos, neg) ==
    /\ Free(r)
    /\ req' = [req EXCEPT ![r] = [IdleReq EXCEPT !.kind = "refine", !.pc = "rpost",
                                                 !.sid = sid, !.pos = pos, !.neg = neg]]
    /\ UNCHANGED <<store, engine, checked, hist>>

(***************************************************************************)
(* POST /session with a sid, as the engine answers it: 2xx and the session *)
(* is created when it was absent, non-2xx when it is live.                 *)
(***************************************************************************)
PostOk(sid) == ~engine[sid].live

EngineAfterPost(sid) ==
    IF engine[sid].live THEN engine ELSE [engine EXCEPT ![sid] = FreshSession]

(***************************************************************************)
(* _refine, first call: the forced POST /session, its answer ignored.      *)
(***************************************************************************)
RefinePost(r) ==
    /\ req[r].pc = "rpost"
    /\ \/ /\ engine' = EngineAfterPost(req[r].sid)
          /\ hist' = HistAfterPost(req[r].sid, r)
          /\ req' = [req EXCEPT ![r].pc = "rput", ![r].calls = Log(r, PostCall)]
       \/ /\ Raise(r, "transport", PostCall)
          /\ UNCHANGED <<engine, hist>>
    /\ UNCHANGED <<store, checked>>

(***************************************************************************)
(* _refine, second call: PUT /refine and return r.json().                  *)
(***************************************************************************)
AfterRefine(r, ok) ==
    IF req[r].kind = "refine"
        THEN [req[r] EXCEPT !.pc = "done", !.outcome = "response", !.response = ok,
                            !.putOk = ok,
                            !.calls = Log(r, PutCall(req[r].pos, req[r].neg))]
        ELSE [req[r] EXCEPT !.pc = "get", !.putOk = ok,
                            !.calls = Log(r, PutCall(req[r].pos, req[r].neg))]

RefinePutMerging(r) ==
    /\ req[r].pc = "rput"
    /\ \/ /\ engine[req[r].sid].live
          /\ engine' = [engine EXCEPT ![req[r].sid] =
                            RefinedSession(engine[req[r].sid].pos \cup req[r].pos,
                                           engine[req[r].sid].neg \cup req[r].neg)]
          /\ hist' = HistAfterPut(req[r].sid, r)
          /\ req' = [req EXCEPT ![r] = AfterRefine(r, TRUE)]
       \/ /\ ~engine[req[r].sid].live
          /\ req' = [req EXCEPT ![r] = AfterRefine(r, FALSE)]
          /\ UNCHANGED <<engine, hist>>
       \/ /\ ~engine[req[r].sid].live
          /\ Raise(r, "nonjson", PutCall(req[r].pos, req[r].neg))
          /\ UNCHANGED <<engine, hist>>
       \/ /\ Raise(r, "transport", PutCall(req[r].pos, req[r].neg))
          /\ UNCHANGED <<engine, hist>>
    /\ UNCHANGED <<store, checked>>

RefinePut(r) ==
    /\ req[r].pc = "rput"
    /\ \/ /\ engine[req[r].sid].live
          /\ engine' = [engine EXCEPT ![req[r].sid] = RefinedSession(req[r].pos, req[r].neg)]
          /\ hist' = HistAfterPut(req[r].sid, r)
          /\ req' = [req EXCEPT ![r] = AfterRefine(r, TRUE)]
       \/ /\ ~engine[req[r].sid].live
          /\ req' = [req EXCEPT ![r] = AfterRefine(r, FALSE)]
          /\ UNCHANGED <<engine, hist>>
       \/ /\ ~engine[req[r].sid].live
          /\ Raise(r, "nonjson", PutCall(req[r].pos, req[r].neg))
          /\ UNCHANGED <<engine, hist>>
       \/ /\ Raise(r, "transport", PutCall(req[r].pos, req[r].neg))
          /\ UNCHANGED <<engine, hist>>
    /\ UNCHANGED <<store, checked>>

(***************************************************************************)
(* The ranking engine's answer to GET /get_results: the window [i, j) of   *)
(* its ranking, entries <<checksum, confidence>> by confidence descending, *)
(* and the length of the whole ranking.                                    *)
(***************************************************************************)
Entries == {<<sha, c>> : sha \in Shas, c \in Confs}

Rankings ==
    {rk \in UNION {[1..n -> Entries] : n \in 0..MaxRank} :
        \A k \in 1..(Len(rk) - 1) : rk[k][2] >= rk[k + 1][2]}

Window(rk, i, j) == SubSeq(rk, i + 1, IF j < Len(rk) THEN j ELSE Len(rk))

Response(rk, i, j) ==
    [ok |-> TRUE, total_results |-> Len(rk), results |-> Window(rk, i, j)]

(***************************************************************************)
(* The document index. sha1sum_s_md is a scalar (kept as a one-element     *)
(* tuple, isList FALSE) or a list. Documents 1 and 2 are two documents of  *)
(* one checksum; document 4 carries the checksums 2 and 1.                 *)
(***************************************************************************)
Doc(id, isList, shas) == [id |-> id, isList |-> isList, sha1sum_s_md |-> shas]

IndexDocs ==
    {Doc(1, FALSE, <<1>>), Doc(2, FALSE, <<1>>), Doc(3, FALSE, <<2>>), Doc(4, TRUE, <<2, 1>>)}

Matches(d, values) == \E k \in 1..Len(d.sha1sum_s_md) : d.sha1sum_s_md[k] \in values

(***************************************************************************)
(* solr_documents_from_field('sha1sum_s_md', values): the documents with   *)
(* one of the values in the field, none or several per value, in an order  *)
(* of the index's choosing.                                                *)
(***************************************************************************)
solr_documents_from_field(values) ==
    LET hits == {d \in IndexDocs : Matches(d, values)}
    IN  {ds \in UNION {[1..n -> hits] : n \in 0..MaxDocs} :
            \A a, b \in 1..Len(ds) : a # b => ds[a].id # ds[b].id}

QueryValues(resp) == {resp.results[k][1] : k \in 1..Len(resp.results)}

(***************************************************************************)
(* The merge of results: lines 165 to 182.                                 *)
(***************************************************************************)
confidenceValuesFirstWins(results) ==
    [sha \in {results[k][1] : k \in 1..Len(results)} |->
        LET first == CHOOSE k \in 1..Len(results) :
                        /\ results[k][1] = sha
                        /\ \A m \in 1..(k - 1) : results[m][1] # sha
        IN  results[first][2]]

\* dict(resp['results']): the last entry of a checksum wins
confidenceValues(results) ==
    [sha \in {results[k][1] : k \in 1..Len(results)} |->
        LET last == CHOOSE k \in 1..Len(results) :
                        /\ results[k][1] = sha
                        /\ \A m \in (k + 1)..Len(results) : results[m][1] # sha
        IN  results[last][2]]

\* x['sha1sum_s_md'][0] if isinstance(x['sha1sum_s_md'], list) else x['sha1sum_s_md']
Rep(d) == IF d.isList THEN d.sha1sum_s_md[1] ELSE Head(d.sha1sum_s_md)

\* the one logger.error of the handler
Diagnostics(resp, documents) == IF Len(documents) < Len(resp.results) THEN 1 ELSE 0

\* a lookup confidenceValues[...] of the loop raises KeyError
MissingConfidence(resp, documents) ==
    \E k \in 1..Len(documents) : Rep(documents[k]) \notin DOMAIN confidenceValues(resp.results)

WithConfidence(d, conf) ==
    [id |-> d.id, isList |-> d.isList, sha1sum_s_md |-> d.sha1sum_s_md,
     smqtk_iqr_confidence |-> conf[Rep(d)]]

KeyLessTieAscending(a, b) ==
    \/ a.smqtk_iqr_confidence < b.smqtk_iqr_confidence
    \/ /\ a.smqtk_iqr_confidence = b.smqtk_iqr_confidence
       /\ Rep(a) > Rep(b)

\* the sort key (confidence, representative checksum), compared as tuples
KeyLess(a, b) ==
    \/ a.smqtk_iqr_confidence < b.smqtk_iqr_confidence
    \/ /\ a.smqtk_iqr_confidence = b.smqtk_iqr_confidence
       /\ Rep(a) < Rep(b)

RECURSIVE InsertDescUnique(_, _)
InsertDescUnique(d, s) ==
    IF s = <<>> THEN <<d>>
    ELSE IF KeyLess(Head(s), d) THEN <<d>> \o s
    ELSE IF ~KeyLess(d, Head(s)) THEN s
    ELSE <<Head(s)>> \o InsertDescUnique(d, Tail(s))

\* sorted(..., reverse=True) is stable: equal keys keep their order
RECURSIVE InsertDesc(_, _)
InsertDesc(d, s) ==
    IF s = <<>> THEN <<d>>
    ELSE IF KeyLess(Head(s), d) THEN <<d>> \o s
    ELSE <<Head(s)>> \o InsertDesc(d, Tail(s))

RECURSIVE SortedReverse(_)
SortedReverse(ds) ==
    IF ds = <<>> THEN <<>>
    ELSE InsertDesc(ds[Len(ds)], SortedReverse(SubSeq(ds, 1, Len(ds) - 1)))

NumFoundInWindow(resp) == Len(resp.results)

\* 'numFound': resp['total_results']
NumFound(resp) == resp.total_results

PageCountingDocs(resp, documents) ==
    LET conf == confidenceValues(resp.results)
    IN  [numFound |-> Len(documents),
         docs |-> SortedReverse([k \in 1..Len(documents) |-> WithConfidence(documents[k], conf)])]

Page(resp, documents) ==
    LET conf == confidenceValues(resp.results)
    IN  [numFound |-> NumFound(resp),
         docs |-> SortedReverse([k \in 1..Len(documents) |-> WithConfidence(documents[k], conf)])]

EmptyPage == [numFound |-> 0, docs |-> <<>>]

resultsWithoutReconcile(r, sid, params) ==
    /\ Free(r)
    /\ req' = [req EXCEPT ![r] = [IdleReq EXCEPT !.kind = "results", !.pc = "get",
                                                 !.sid = sid, !.params = params]]
    /\ UNCHANGED <<store, engine, checked, hist>>

(***************************************************************************)
(* results: the handler starts.                                            *)
(***************************************************************************)
results(r, sid, params) ==
    /\ Free(r)
    /\ req' = [req EXCEPT ![r] = [IdleReq EXCEPT !.kind = "results", !.pc = "exists",
                                                 !.sid = sid, !.params = params]]
    /\ UNCHANGED <<store, engine, checked, hist>>

SidExistsResultOk(ok) == ok

\* not requests.post(...).ok
SidExistsResult(ok) == ~ok

(***************************************************************************)
(* sid_exists: POST /session with the sid.                                 *)
(***************************************************************************)
sid_exists(r) ==
    /\ req[r].pc = "exists"
    /\ \/ /\ engine' = EngineAfterPost(req[r].sid)
          /\ checked' = [checked EXCEPT ![req[r].sid] = TRUE]
          /\ hist' = HistAfterPost(req[r].sid, r)
          /\ req' = [req EXCEPT ![r].existed = SidExistsResult(PostOk(req[r].sid)),
                                ![r].liveBefore = engine[req[r].sid].live,
                                ![r].recheck = checked[req[r].sid],
                                ![r].calls = Log(r, PostCall),
                                ![r].pc = IF SidExistsResult(PostOk(req[r].sid))
                                            THEN "get" ELSE "find"]
       \/ /\ Raise(r, "transport", PostCall)
          /\ UNCHANGED <<engine, checked, hist>>
    /\ UNCHANGED store

ReplayParamsSwapped(session) == [pos |-> session.neg, neg |-> session.pos]

\* the _refine parameters built from the item's metadata
ReplayParams(session) == [pos |-> session.pos, neg |-> session.neg]

FindSessionSaving(r) ==
    /\ req[r].pc = "find"
    /\ LET session == store[req[r].sid]
       IN  \/ /\ ~session.exists
              /\ req' = [req EXCEPT ![r].pc = "get"]
              /\ store' = store
           \/ /\ session.exists
              /\ session.hasLabels
              /\ req' = [req EXCEPT ![r].pc = "rpost", ![r].session = session,
                                    ![r].pos = ReplayParams(session).pos,
                                    ![r].neg = ReplayParams(session).neg]
              /\ store' = [store EXCEPT ![req[r].sid] = LabelledItem({}, {})]
           \/ /\ session.exists
              /\ ~session.hasLabels
              /\ req' = [req EXCEPT ![r].pc = "done", ![r].session = session,
                                    ![r].outcome = "raised", ![r].fault = "keyerror"]
              /\ store' = store
    /\ UNCHANGED <<engine, checked, hist>>

(***************************************************************************)
(* The session was absent: findOne({'meta.sid': sid}) and, with an item,   *)
(* the parameters of the replay; session['meta']['pos_uuids'] raises       *)
(* KeyError on an item that carries no label sets.                         *)
(***************************************************************************)
FindSession(r) ==
    /\ req[r].pc = "find"
    /\ LET session == store[req[r].sid]
       IN  \/ /\ ~session.exists
              /\ req' = [req EXCEPT ![r].pc = "get"]
           \/ /\ session.exists
              /\ session.hasLabels
              /\ req' = [req EXCEPT ![r].pc = "rpost", ![r].session = session,
                                    ![r].pos = ReplayParams(session).pos,
                                    ![r].neg = ReplayParams(session).neg]
           \/ /\ session.exists
              /\ ~session.hasLabels
              /\ req' = [req EXCEPT ![r].pc = "done", ![r].session = session,
                                    ![r].outcome = "raised", ![r].fault = "keyerror"]
    /\ UNCHANGED <<store, engine, checked, hist>>

(***************************************************************************)
(* GET /get_results with i = offset, j = offset + limit, then .json().     *)
(* A live session answers with its ranking; an absent one with a non-2xx   *)
(* whose body is JSON without 'results' (the KeyError of line 157, caught: *)
(* the empty page) or no JSON at all (.json() raises).                     *)
(***************************************************************************)
GetResultsFrom(r, rankings) ==
    /\ req[r].pc = "get"
    /\ LET i == Offset(req[r].params)
           j == Offset(req[r].params) + Limit(req[r].params)
       IN  \/ /\ engine[req[r].sid].live
              /\ \E rk \in rankings :
                    req' = [req EXCEPT ![r].pc = "solr", ![r].resp = Response(rk, i, j),
                                       ![r].calls = Log(r, GetCall(i, j))]
           \/ /\ ~engine[req[r].sid].live
              /\ req' = [req EXCEPT ![r].pc = "done", ![r].outcome = "page",
                                    ![r].page = EmptyPage, ![r].fault = "engine",
                                    ![r].calls = Log(r, GetCall(i, j))]
           \/ /\ ~engine[req[r].sid].live
              /\ Raise(r, "nonjson", GetCall(i, j))
           \/ Raise(r, "transport", GetCall(i, j))
    /\ UNCHANGED <<store, engine, checked, hist>>

GetResults(r) == GetResultsFrom(r, Rankings)

(***************************************************************************)
(* The Solr lookup and the merge of its documents with the confidences.    *)
(***************************************************************************)
ResolveAndMerge(r) ==
    /\ req[r].pc = "solr"
    /\ \/ \E documents \in solr_documents_from_field(QueryValues(req[r].resp)) :
            /\ ~MissingConfidence(req[r].resp, documents)
            /\ req' = [req EXCEPT ![r].pc = "done", ![r].documents = documents,
                                  ![r].logged = Diagnostics(req[r].resp, documents),
                                  ![r].outcome = "page",
                                  ![r].page = Page(req[r].resp, documents)]
       \/ \E documents \in solr_documents_from_field(QueryValues(req[r].resp)) :
            /\ MissingConfidence(req[r].resp, documents)
            /\ req' = [req EXCEPT ![r].pc = "done", ![r].documents = documents,
                                  ![r].logged = Diagnostics(req[r].resp, documents),
                                  ![r].outcome = "raised", ![r].fault = "keyerror"]
       \/ req' = [req EXCEPT ![r].pc = "done", ![r].outcome = "raised",
                             ![r].fault = "index"]
    /\ UNCHANGED <<store, engine, checked, hist>>

Next ==
    \/ \E sid \in Sids : Expire(sid)
    \/ \E sid \in Sids, pos \in LabelSets, neg \in LabelSets : SetMetadata(sid, pos, neg)
    \/ \E sid \in Sids : createSession(sid)
    \/ \E r \in Reqs, sid \in Sids, pos \in LabelSets, neg \in LabelSets : refine(r, sid, pos, neg)
    \/ \E r \in Reqs, sid \in Sids, offset \in OptOffsets, limit \in OptLimits :
            results(r, sid, [offset |-> offset, limit |-> limit])
    \/ \E r \in Reqs : RefinePost(r)
    \/ \E r \in Reqs : RefinePut(r)
    \/ \E r \in Reqs : sid_exists(r)
    \/ \E r \in Reqs : FindSession(r)
    \/ \E r \in Reqs : GetResults(r)
    \/ \E r \in Reqs : ResolveAndMerge(r)
    \/ \E r \in Reqs : Reply(r)

Spec == Init /\ [][Next]_vars

(***************************************************************************)
(* Two requests at a time. Every request is handled on its own and may run *)
(* concurrently with another; their HTTP calls interleave one by one. The  *)
(* engine's ranking is empty and the requests name no window, which leaves *)
(* the interleavings of the calls as the only choice.                      *)
(***************************************************************************)
ConcReqs == {"r1", "r2"}

ConcRankings == {<<>>}

InitConc == InitWith(ConcReqs)

GetResultsConc(r) == GetResultsFrom(r, ConcRankings)

NextConc ==
    \/ \E sid \in Sids : Expire(sid)
    \/ \E sid \in Sids, pos \in LabelSets, neg \in LabelSets : SetMetadata(sid, pos, neg)
    \/ \E sid \in Sids : createSession(sid)
    \/ \E r \in ConcReqs, sid \in Sids, pos \in LabelSets, neg \in LabelSets :
            refine(r, sid, pos, neg)
    \/ \E r \in ConcReqs, sid \in Sids : results(r, sid, NoParams)
    \/ \E r \in ConcReqs : RefinePost(r)
    \/ \E r \in ConcReqs : RefinePut(r)
    \/ \E r \in ConcReqs : sid_exists(r)
    \/ \E r \in ConcReqs : FindSession(r)
    \/ \E r \in ConcReqs : GetResultsConc(r)
    \/ \E r \in ConcReqs : ResolveAndMerge(r)
    \/ \E r \in ConcReqs : Reply(r)

SpecConc == InitConc /\ [][NextConc]_vars

(***************************************************************************)
(* Claims.                                                                 *)
(***************************************************************************)
Puts(r) == {k \in 1..Len(req[r].calls) : req[r].calls[k].op = "PUT"}
Gets(r) == {k \in 1..Len(req[r].calls) : req[r].calls[k].op = "GET"}

ResultsDone(r) == req[r].kind = "results" /\ req[r].pc = "done"
RefineDone(r) == req[r].kind = "refine" /\ req[r].pc = "done"

\* a results request whose sid_exists found the session absent and whose
\* findOne read an item holding label sets
AbsentWithLabels(r) ==
    /\ req[r].kind = "results"
    /\ req[r].pc \in {"rpost", "rput", "get", "solr", "done"}
    /\ ~req[r].existed
    /\ req[r].session.hasLabels

\* C1: a results request that found the engine session absent and read an
\* item with stored label sets issues one PUT /refine and no more, it carries
\* exactly the stored pos and neg sets, and it comes before the request's
\* GET /get_results; the request ends without a PUT only when the transport
\* of _refine's own POST /session failed.
C1_ReplayOnceBeforeFetch ==
    \A r \in Reqs :
        AbsentWithLabels(r) =>
            /\ Cardinality(Puts(r)) <= 1
            /\ \A k \in Puts(r) :
                  /\ req[r].calls[k].pos = req[r].session.pos
                  /\ req[r].calls[k].neg = req[r].session.neg
            /\ \A g \in Gets(r) : \E k \in Puts(r) : k < g
            /\ (req[r].pc = "done" /\ Puts(r) = {}) =>
                  /\ req[r].fault = "transport"
                  /\ req[r].calls[Len(req[r].calls)].op = "POST"

C1_Witness ==
    \E r \in Reqs :
        /\ AbsentWithLabels(r)
        /\ req[r].pc = "done"
        /\ req[r].outcome = "page"
        /\ req[r].session.pos # {}
        /\ Cardinality(Puts(r)) = 1
        /\ Gets(r) # {}

\* C2: once a refine(sid, pos, neg) has succeeded, the durable item of sid
\* holds exactly pos and neg.
C2_WriteThrough ==
    \A r \in Reqs :
        (RefineDone(r) /\ req[r].outcome = "response" /\ req[r].putOk) =>
            store[req[r].sid] = LabelledItem(req[r].pos, req[r].neg)

\* C3: in every page results returns, a document before another has a
\* greater confidence, or the same confidence and a representative checksum
\* that is greater or equal.
C3_SortInvariant ==
    \A r \in Reqs :
        (ResultsDone(r) /\ req[r].outcome = "page") =>
            \A a, b \in 1..Len(req[r].page.docs) :
                a < b =>
                    LET d1 == req[r].page.docs[a]
                        d2 == req[r].page.docs[b]
                    IN  \/ d1.smqtk_iqr_confidence > d2.smqtk_iqr_confidence
                        \/ /\ d1.smqtk_iqr_confidence = d2.smqtk_iqr_confidence
                           /\ Rep(d1) >= Rep(d2)

C3_Witness ==
    \E r \in Reqs :
        /\ ResultsDone(r)
        /\ req[r].outcome = "page"
        /\ Len(req[r].page.docs) = 2
        /\ Len(req[r].documents) = 2
        /\ Rep(req[r].documents[1]) < Rep(req[r].documents[2])
        /\ req[r].page.docs[1].smqtk_iqr_confidence = req[r].page.docs[2].smqtk_iqr_confidence
        /\ req[r].page.docs[1].id = req[r].documents[2].id

HasConfidence(resp, d) == Rep(d) \in DOMAIN confidenceValues(resp.results)

\* C4: when the index returns a document whose representative checksum has
\* no confidence entry, the request still returns a page, without that
\* document and with every other document.
C4_AbsentDocumentExcluded ==
    \A r \in Reqs :
        (ResultsDone(r) /\ req[r].resp.ok /\ MissingConfidence(req[r].resp, req[r].documents)) =>
            /\ req[r].outcome = "page"
            /\ {req[r].page.docs[k].id : k \in 1..Len(req[r].page.docs)}
                 = {req[r].documents[k].id : k \in
                        {m \in 1..Len(req[r].documents) :
                            HasConfidence(req[r].resp, req[r].documents[m])}}

\* the consistency faults of one request: the documents without a confidence
\* entry and the ranked checksums without a resolved document
Absences(resp, documents) ==
    Cardinality({k \in 1..Len(documents) : ~HasConfidence(resp, documents[k])})
    + Cardinality({sha \in QueryValues(resp) :
                      \A k \in 1..Len(documents) : ~Matches(documents[k], {sha})})

\* C5: a results request that merged the documents of its lookup into a page
\* has recorded as many diagnostics as there are absences, one for each.
C5_OneDiagnosticPerAbsence ==
    \A r \in Reqs :
        (ResultsDone(r) /\ req[r].resp.ok /\ req[r].outcome = "page") =>
            req[r].logged = Absences(req[r].resp, req[r].documents)

\* a results request whose fetch yielded no ranked entry
EmptyWindow(r) ==
    /\ ResultsDone(r)
    /\ req[r].resp.ok
    /\ req[r].resp.results = <<>>

C7_FailuresDegradeToEmptyPage ==
    \A r \in Reqs :
        (ResultsDone(r) /\ req[r].fault \in {"transport", "nonjson", "engine", "index"}) =>
            /\ req[r].outcome = "page"
            /\ req[r].page = EmptyPage

\* C8: a refine request whose label sets the engine rejected or did not
\* receive ends in a failure, never in a normal result.
C8_RefineFailureSurfaced ==
    \A r \in Reqs :
        (RefineDone(r) /\ ~req[r].putOk) => req[r].outcome = "raised"

\* C9: a session-existence check that returns reports true exactly when the
\* engine session was live before the call, leaves the session live, and
\* reports true when a check of the same sid returned before it with no
\* expiry in between.
C9_SidExistsReportsLiveness ==
    [][\A r \in Reqs :
          (req[r].pc = "exists" /\ req'[r].pc \in {"find", "get"}) =>
              /\ req'[r].existed = engine[req[r].sid].live
              /\ engine'[req[r].sid].live
              /\ checked[req[r].sid] => req'[r].existed]_vars

C9_Witness ==
    \E r \in Reqs :
        /\ req[r].kind = "results"
        /\ req[r].pc = "get"
        /\ req[r].recheck
        /\ req[r].existed
        /\ engine[req[r].sid].live

Posts(r) == {k \in 1..Len(req[r].calls) : req[r].calls[k].op = "POST"}

\* C11: every PUT /refine and every GET /get_results a request issues comes
\* after a POST /session of the same request (all calls of a request carry
\* its one sid), and a PUT /refine comes right after one.
C11_CreateAttemptFirst ==
    \A r \in DOMAIN req :
        \A k \in 1..Len(req[r].calls) :
            /\ req[r].calls[k].op \in {"PUT", "GET"} => \E m \in Posts(r) : m < k
            /\ req[r].calls[k].op = "PUT" => (k - 1) \in Posts(r)

C11_Witness ==
    \E r \in DOMAIN req :
        /\ req[r].kind = "results"
        /\ Len(req[r].calls) = 4
        /\ req[r].calls[1].op = "POST"
        /\ req[r].calls[2].op = "POST"
        /\ req[r].calls[3].op = "PUT"
        /\ req[r].calls[4].op = "GET"

\* C12: a results request that has ended made at most one replay refine and
\* exactly one fetch.
C12_OneReplayOneFetch ==
    \A r \in DOMAIN req :
        ResultsDone(r) =>
            /\ Cardinality(Puts(r)) <= 1
            /\ Cardinality(Gets(r)) = 1

\* the part of C12 that no failure breaks: no call is repeated, and a request
\* under way always has its next step
C12_NoRetry ==
    \A r \in DOMAIN req :
        req[r].kind = "results" =>
            /\ Cardinality(Posts(r)) <= 2
            /\ Cardinality(Puts(r)) <= 1
            /\ Cardinality(Gets(r)) <= 1
            /\ req[r].pc = "done" /\ req[r].outcome = "page" => Cardinality(Gets(r)) = 1
            /\ req[r].pc # "done" =>
                  ENABLED (sid_exists(r) \/ FindSession(r) \/ RefinePost(r)
                             \/ RefinePut(r) \/ GetResults(r) \/ ResolveAndMerge(r))

\* a results request that has ended, whose sid_exists answered "absent" and
\* whose findOne read no item or an item that holds no label sets
AbsentWithoutLabels(r) ==
    /\ ResultsDone(r)
    /\ ~req[r].existed
    /\ ~(req[r].fault = "transport" /\ Len(req[r].calls) = 1)
    /\ ~req[r].session.hasLabels

\* C14: a results request that found the session absent and read no stored
\* record, or a record without labels, sends no refine and goes on to its
\* fetch.
C14_NoLabelsNoReplay ==
    \A r \in DOMAIN req :
        AbsentWithoutLabels(r) => Puts(r) = {} /\ Gets(r) # {}

\* the same with the record that holds no label sets left out
C14_NoRecordNoReplay ==
    \A r \in DOMAIN req :
        AbsentWithoutLabels(r) /\ ~req[r].session.exists => Puts(r) = {} /\ Gets(r) # {}

\* a results request that has ended with a page merged from a usable answer
MergedPage(r) == ResultsDone(r) /\ req[r].outcome = "page" /\ req[r].resp.ok

\* the positions of the ranked entries of resp that carry the checksum sha
EntriesOf(resp, sha) == {m \in 1..Len(resp.results) : resp.results[m][1] = sha}

\* C15: every document of the page carries the confidence of the last ranked
\* entry whose checksum is the document's representative checksum: the
\* checksum field itself when it is a scalar, its first element when a list.
C15_ConfidenceOfLastEntry ==
    \A r \in DOMAIN req :
        MergedPage(r) =>
            \A k \in 1..Len(req[r].page.docs) :
                LET d == req[r].page.docs[k]
                    sha == d.sha1sum_s_md[1]
                    at == EntriesOf(req[r].resp, sha)
                IN  /\ (~d.isList) => Len(d.sha1sum_s_md) = 1
                    /\ at # {}
                    /\ \E m \in at :
                          /\ \A n \in at : n <= m
                          /\ d.smqtk_iqr_confidence = req[r].resp.results[m][2]

C15_Witness ==
    \E r \in DOMAIN req :
        /\ MergedPage(r)
        /\ Len(req[r].resp.results) = 2
        /\ req[r].resp.results[1][1] = req[r].resp.results[2][1]
        /\ req[r].resp.results[1][2] # req[r].resp.results[2][2]
        /\ \E k \in 1..Len(req[r].page.docs) :
              /\ req[r].page.docs[k].isList
              /\ req[r].page.docs[k].smqtk_iqr_confidence = req[r].resp.results[2][2]

\* the positions of the resolved documents whose representative checksum has
\* a ranked entry
Joined(r) ==
    {k \in 1..Len(req[r].documents) :
        EntriesOf(req[r].resp, req[r].documents[k].sha1sum_s_md[1]) # {}}

\* C16: the docs of a returned, non-degraded page are a permutation of the
\* resolved documents that have a confidence entry: each of them appears
\* exactly once, fan-out included, and nothing else appears.
C16_PageIsPermutation ==
    \A r \in DOMAIN req :
        MergedPage(r) =>
            /\ Len(req[r].page.docs) = Cardinality(Joined(r))
            /\ \A k \in Joined(r) :
                  Cardinality({m \in 1..Len(req[r].page.docs) :
                                  req[r].page.docs[m].id = req[r].documents[k].id}) = 1
            /\ \A m \in 1..Len(req[r].page.docs) :
                  \E k \in Joined(r) :
                      /\ req[r].page.docs[m].id = req[r].documents[k].id
                      /\ req[r].page.docs[m].sha1sum_s_md = req[r].documents[k].sha1sum_s_md

C16_Witness ==
    \E r \in DOMAIN req :
        /\ MergedPage(r)
        /\ Len(req[r].documents) = 2
        /\ req[r].documents[1].sha1sum_s_md = req[r].documents[2].sha1sum_s_md
        /\ Len(req[r].page.docs) = 2
        /\ req[r].page.docs[1].id # req[r].page.docs[2].id

\* C18: a page merged from usable ranking data reports the engine's
\* total_results as its total, however many documents the index resolved.
C18_TotalIsEngineTotal ==
    \A r \in DOMAIN req :
        MergedPage(r) => req[r].page.numFound = req[r].resp.total_results

C18_Witness ==
    \E r \in DOMAIN req :
        /\ MergedPage(r)
        /\ req[r].resp.results # <<>>
        /\ req[r].page.numFound = 2
        /\ Len(req[r].documents) = 1
        /\ Len(req[r].page.docs) = 1

\* the window a request names: offset o and limit l, 0 and 20 when omitted
AskedFrom(params) == IF params.offset = <<>> THEN 0 ELSE params.offset[1]
AskedCount(params) == IF params.limit = <<>> THEN 20 ELSE params.limit[1]

\* C19: the GET /get_results of a results request asks for the window
\* [o, o + l) of its offset o and limit l, and every document of the returned
\* page has its representative checksum among the ranked entries the engine
\* answered for that window.
C19_WindowAsked ==
    \A r \in DOMAIN req :
        req[r].kind = "results" =>
            /\ \A g \in Gets(r) :
                  /\ req[r].calls[g].i = AskedFrom(req[r].params)
                  /\ req[r].calls[g].j = AskedFrom(req[r].params) + AskedCount(req[r].params)
            /\ MergedPage(r) =>
                  /\ Len(req[r].resp.results) <= AskedCount(req[r].params)
                  /\ \A k \in 1..Len(req[r].page.docs) :
                        EntriesOf(req[r].resp, req[r].page.docs[k].sha1sum_s_md[1]) # {}

C19_Witness ==
    \E r \in DOMAIN req :
        /\ MergedPage(r)
        /\ req[r].params.offset = <<1>>
        /\ req[r].params.limit = <<1>>
        /\ req[r].resp.total_results = 2
        /\ Len(req[r].resp.results) = 1
        /\ Len(req[r].page.docs) = 1
        /\ \E g \in Gets(r) : req[r].calls[g].i = 1 /\ req[r].calls[g].j = 2

\* C20: no step of a results request, the re-creation of the engine session
\* and the replay of the labels included, changes the durable store.
C20_ResultsLeavesStore ==
    [][\A r \in DOMAIN req :
          (req'[r] # req[r] /\ (req[r].kind = "results" \/ req'[r].kind = "results"))
              => store' = store]_vars

C20_Witness ==
    \E r \in DOMAIN req :
        /\ ResultsDone(r)
        /\ ~req[r].existed
        /\ ~req[r].liveBefore
        /\ Puts(r) # {}
        /\ Gets(r) # {}
        /\ req[r].session.neg # {}
        /\ store[req[r].sid] = req[r].session
        /\ engine[req[r].sid] = RefinedSession(req[r].session.pos, req[r].session.neg)

\* the step in which request r sends its GET /get_results
Fetches(r) ==
    /\ req[r].kind = "results"
    /\ req[r].pc = "get"
    /\ Len(req'[r].calls) = Len(req[r].calls) + 1
    /\ req'[r].calls[Len(req'[r].calls)].op = "GET"

\* C13: no results request sends its GET /get_results to an engine session
\* that was re-created while the item held label sets and to which no PUT
\* /refine has been applied since.
C13_NoFetchBeforeReplay ==
    [][\A r \in DOMAIN req :
          (Fetches(r) /\ engine[req[r].sid].live) => ~hist[req[r].sid].unreplayed]_vars

\* two refine requests on one sid, both ended with their PUT /refine applied,
\* and the session not expired since
BothRefined(a, b) ==
    /\ a # b
    /\ RefineDone(a) /\ req[a].putOk
    /\ RefineDone(b) /\ req[b].putOk
    /\ req[a].sid = req[b].sid
    /\ hist[req[a].sid].lastPut # "none"

\* C17: once two concurrent refine requests on one sid have both completed,
\* the engine session holds exactly the pos and neg sets of the one whose
\* PUT /refine was applied last, and a refine under way can always take its
\* next step, whatever the other request is doing.
C17_LastRefineWins ==
    \A a, b \in DOMAIN req :
        /\ BothRefined(a, b) =>
              LET last == hist[req[a].sid].lastPut
              IN  /\ last \in {a, b}
                  /\ engine[req[a].sid].live
                  /\ engine[req[a].sid].pos = req[last].pos
                  /\ engine[req[a].sid].neg = req[last].neg
        /\ (req[a].kind = "refine" /\ req[a].pc = "rpost") => ENABLED RefinePost(a)
        /\ (req[a].kind = "refine" /\ req[a].pc = "rput") => ENABLED RefinePut(a)

C17_Witness ==
    \E a, b \in DOMAIN req :
        /\ BothRefined(a, b)
        /\ hist[req[a].sid].lastPut = b
        /\ req[a].pos = Uuids /\ req[a].neg = {}
        /\ req[b].pos = {} /\ req[b].neg = Uuids
        /\ req[a].calls[Len(req[a].calls)].op = "PUT"
        /\ engine[req[a].sid] = RefinedSession({}, Uuids)

====
